---- MODULE Spec2Model ----
(***************************************************************************)
(* The World of src/world.rs: the entity allocator, the component tables,  *)
(* the layered spatial table and the rules that change them (movement and  *)
(* bump attacks, damage and death, pickup / use / aim / drop of items,     *)
(* projectile flight).                                                     *)
(*                                                                         *)
(* A call of a World method is one action.  The method bodies are          *)
(* operators from a context x to a context: x.world is the struct World,   *)
(* x.log the caller's message_log, x.panic the reason of a fatal error     *)
(* (NoPanic while the program runs), x.deaths how often character_die ran  *)
(* for each entity.  flight follows the last fireball launched at a        *)
(* character in a straight line: its target, the distance and the number  *)
(* of move_projectiles calls since the launch.  inv is an Inventory on its *)
(* own and inv_result the last call made on it.                            *)
(***************************************************************************)
EXTENDS Integers, Sequences, FiniteSets, TLC

VARIABLES world, message_log, result, fatal, deaths, player_entity, ai_state,
          flight, inv, inv_result

vars == <<world, message_log, result, fatal, deaths, player_entity, ai_state,
         flight, inv, inv_result>>

(***************************************************************************)
(* Plain values                                                            *)
(***************************************************************************)
None == 0
NoPanic == "none"
NoLayer == "none"

Layers == {"floor", "character", "object", "feature", "projectile"}

NpcTypes == {"Orc", "Troll"}
ItemTypes == {"HealthPotion", "FireballScroll"}

PlayerMaxHitPoints == 20
OrcMaxHitPoints == 2
TrollMaxHitPoints == 6
HEALTH_TO_HEAL == 5
BumpDamage == 1
FireballDamage == 2

\* Inventory::new(10) in spawn_player; scaled down so that the inventory can
\* be filled on a grid of a few cells.
PlayerInventoryCapacity == 2

\* An Inventory on its own: capacities 0 .. MaxCapacity, items 1 .. MaxItem
MaxCapacity == 3
MaxItem == 2

Directions == {"North", "East", "South", "West"}

DirectionCoord(d) ==
    CASE d = "North" -> <<0, -1>>
      [] d = "East" -> <<1, 0>>
      [] d = "South" -> <<0, 1>>
      [] d = "West" -> <<-1, 0>>

CoordAdd(a, b) == <<a[1] + b[1], a[2] + b[2]>>
CoordSub(a, b) == <<a[1] - b[1], a[2] - b[2]>>

Abs(n) == IF n < 0 THEN -n ELSE n
Min(a, b) == IF a <= b THEN a ELSE b

\* u32::saturating_sub
SaturatingSub(a, b) == IF a >= b THEN a - b ELSE 0

(***************************************************************************)
(* Sparse tables (entity -> value)                                         *)
(***************************************************************************)
EmptyTable == [e \in {} |-> None]
Has(t, e) == e \in DOMAIN t
Put(t, e, v) == [k \in DOMAIN t \cup {e} |-> IF k = e THEN v ELSE t[k]]
Del(t, e) == [k \in DOMAIN t \ {e} |-> t[k]]

(***************************************************************************)
(* Terrain descriptions handed to populate.  One string per cell:          *)
(*   "P" player, "." floor, "#" wall, "o" orc, "T" troll,                  *)
(*   "h" health potion, "f" fireball scroll.                               *)
(* npc_turns: whether the caller gives the NPCs of this world turns.       *)
(***************************************************************************)
DuelWorld ==
    [terrain |-> << <<"P", "h", "o">> >>,
     npc_turns |-> TRUE]

PackWorld ==
    [terrain |-> << <<"P", "o", "o">> >>,
     npc_turns |-> TRUE]

ItemWorld ==
    [terrain |-> << <<"P", "h">>,
                    <<"h", "f">> >>,
     npc_turns |-> FALSE]

FireWorld ==
    [terrain |-> << <<"P", "f", "#">>,
                    <<"f", "o", ".">> >>,
     npc_turns |-> FALSE]

LineWorld ==
    [terrain |-> << <<"P", "f", ".", "T">> >>,
     npc_turns |-> FALSE]

Worlds == {DuelWorld, PackWorld, ItemWorld, FireWorld, LineWorld}

GridWidth(terrain) == Len(terrain[1])
GridHeight(terrain) == Len(terrain)
GridCoords(size) == (0 .. size[1] - 1) \X (0 .. size[2] - 1)

(***************************************************************************)
(* Entity allocator: ids are never reissued, indices are.                  *)
(***************************************************************************)
NewEntityAllocator ==
    [next_id |-> 1, index_to_id |-> << >>, free_indices |-> << >>]

\* alloc(): a freed index is reused (last freed first), else a new one.
Alloc(ea) ==
    LET id == ea.next_id
    IN  IF ea.free_indices # << >>
        THEN LET i == ea.free_indices[Len(ea.free_indices)]
             IN  [entity |-> id,
                  ea |-> [next_id |-> id + 1,
                          index_to_id |-> [ea.index_to_id EXCEPT ![i] = id],
                          free_indices |-> SubSeq(ea.free_indices, 1,
                                                  Len(ea.free_indices) - 1)]]
        ELSE [entity |-> id,
              ea |-> [next_id |-> id + 1,
                      index_to_id |-> Append(ea.index_to_id, id),
                      free_indices |-> ea.free_indices]]

Exists(ea, e) == \E i \in DOMAIN ea.index_to_id : ea.index_to_id[i] = e

IndexOf(ea, e) == CHOOSE i \in DOMAIN ea.index_to_id : ea.index_to_id[i] = e

Free(ea, e) ==
    IF Exists(ea, e)
    THEN [ea EXCEPT !.index_to_id[IndexOf(ea, e)] = None,
                    !.free_indices = Append(@, IndexOf(ea, e))]
    ELSE ea

(***************************************************************************)
(* Component tables                                                        *)
(***************************************************************************)
NewComponents ==
    [tile |-> EmptyTable, npc_type |-> EmptyTable, hit_points |-> EmptyTable,
     item |-> EmptyTable, inventory |-> EmptyTable, trajectory |-> EmptyTable,
     projectile |-> EmptyTable]

ComponentsRemoveEntity(c, e) ==
    [tile |-> Del(c.tile, e), npc_type |-> Del(c.npc_type, e),
     hit_points |-> Del(c.hit_points, e), item |-> Del(c.item, e),
     inventory |-> Del(c.inventory, e), trajectory |-> Del(c.trajectory, e),
     projectile |-> Del(c.projectile, e)]

(***************************************************************************)
(* Spatial table: entity -> location, and coordinate -> layers.            *)
(***************************************************************************)
EmptyLayers ==
    [floor |-> None, character |-> None, object |-> None, feature |-> None,
     projectile |-> None]

NewSpatialTable(size) ==
    [grid_size |-> size,
     location_component |-> EmptyTable,
     spatial_grid |-> [c \in GridCoords(size) |-> EmptyLayers]]

IsValid(coord, size) ==
    /\ coord[1] >= 0 /\ coord[1] < size[1]
    /\ coord[2] >= 0 /\ coord[2] < size[2]

CoordOf(st, e) ==
    IF Has(st.location_component, e) THEN st.location_component[e].coord
    ELSE <<-1, -1>>

HasCoord(st, e) == Has(st.location_component, e)

LayerOf(st, e) ==
    IF Has(st.location_component, e) THEN st.location_component[e].layer
    ELSE NoLayer

LayersAtChecked(st, coord) == st.spatial_grid[coord]

\* update: fails, naming the occupant, when another entity holds the slot.
SpatialUpdate(st, e, location) ==
    LET inside == IsValid(location.coord, st.grid_size)
        occupant == IF inside /\ location.layer # NoLayer
                    THEN st.spatial_grid[location.coord][location.layer]
                    ELSE None
    IN  IF (location.layer # NoLayer /\ ~inside)
           \/ (occupant # None /\ occupant # e)
        THEN [ok |-> FALSE, occupied_by |-> occupant, st |-> st]
        ELSE LET old == st.location_component[e]
                 vacated ==
                     IF Has(st.location_component, e) /\ old.layer # NoLayer
                     THEN [st.spatial_grid EXCEPT ![old.coord][old.layer] = None]
                     ELSE st.spatial_grid
                 placed ==
                     IF location.layer # NoLayer
                     THEN [vacated EXCEPT ![location.coord][location.layer] = e]
                     ELSE vacated
             IN  [ok |-> TRUE, occupied_by |-> None,
                  st |-> [st EXCEPT
                            !.location_component = Put(@, e, location),
                            !.spatial_grid = placed]]

SpatialUpdateCoord(st, e, coord) ==
    SpatialUpdate(st, e, [coord |-> coord, layer |-> LayerOf(st, e)])

SpatialUpdateLayer(st, e, layer) ==
    SpatialUpdate(st, e, [coord |-> CoordOf(st, e), layer |-> layer])

SpatialRemove(st, e) ==
    IF Has(st.location_component, e)
    THEN LET old == st.location_component[e]
         IN  [st EXCEPT
                !.location_component = Del(@, e),
                !.spatial_grid =
                    IF old.layer # NoLayer
                    THEN [@ EXCEPT ![old.coord][old.layer] = None]
                    ELSE @]
    ELSE st

(***************************************************************************)
(* Inventory (slot i of the source is slots[i + 1])                        *)
(***************************************************************************)
NewInventory(capacity) == [i \in 1 .. capacity |-> None]

FirstEmptySlot(slots) ==
    IF \E i \in DOMAIN slots : slots[i] = None
    THEN CHOOSE i \in DOMAIN slots :
             slots[i] = None /\ \A j \in DOMAIN slots : slots[j] = None => i <= j
    ELSE 0

LastEmptySlot(slots) ==
    IF \E i \in DOMAIN slots : slots[i] = None
    THEN CHOOSE i \in DOMAIN slots :
             slots[i] = None /\ \A j \in DOMAIN slots : slots[j] = None => j <= i
    ELSE 0

\* Faulty variant of InventoryInsert: the last empty slot is filled, not the first.
InventoryInsertLast(slots, item) ==
    IF LastEmptySlot(slots) # 0
    THEN [ok |-> TRUE, slots |-> [slots EXCEPT ![LastEmptySlot(slots)] = item]]
    ELSE [ok |-> FALSE, slots |-> slots]

\* Faulty variant of InventoryInsert: a full inventory loses what slot 0 held.
InventoryInsertOverwrites(slots, item) ==
    IF FirstEmptySlot(slots) # 0
    THEN [ok |-> TRUE, slots |-> [slots EXCEPT ![FirstEmptySlot(slots)] = item]]
    ELSE [ok |-> FALSE,
          slots |-> [i \in DOMAIN slots |-> IF i = 1 THEN item ELSE slots[i]]]

InventoryInsert(slots, item) ==
    IF FirstEmptySlot(slots) # 0
    THEN [ok |-> TRUE, slots |-> [slots EXCEPT ![FirstEmptySlot(slots)] = item]]
    ELSE [ok |-> FALSE, slots |-> slots]

\* Faulty variant of InventoryRemove: the entity is handed out and stays in
\* the slot.
InventoryRemoveKeeps(slots, index) ==
    IF index + 1 \in DOMAIN slots /\ slots[index + 1] # None
    THEN [ok |-> TRUE, entity |-> slots[index + 1], slots |-> slots]
    ELSE [ok |-> FALSE, entity |-> None, slots |-> slots]

InventoryRemove(slots, index) ==
    IF index + 1 \in DOMAIN slots /\ slots[index + 1] # None
    THEN [ok |-> TRUE, entity |-> slots[index + 1],
          slots |-> [slots EXCEPT ![index + 1] = None]]
    ELSE [ok |-> FALSE, entity |-> None, slots |-> slots]

InventoryGet(slots, index) ==
    IF index + 1 \in DOMAIN slots /\ slots[index + 1] # None
    THEN [ok |-> TRUE, entity |-> slots[index + 1]]
    ELSE [ok |-> FALSE, entity |-> None]

\* No call has been made on inv.
NoCall == [op |-> "new", arg |-> 0, ok |-> TRUE, entity |-> None]

(***************************************************************************)
(* CardinalStepIter::new(delta): the cardinal steps of the line to delta,  *)
(* |dx| + |dy| of them; the model keeps the steps still to come.           *)
(***************************************************************************)
RECURSIVE CardinalStepsFrom(_, _, _)
CardinalStepsFrom(delta, xdone, ydone) ==
    LET adx == Abs(delta[1])
        ady == Abs(delta[2])
        xdir == IF delta[1] > 0 THEN "East" ELSE "West"
        ydir == IF delta[2] > 0 THEN "South" ELSE "North"
        stepx == <<xdir>> \o CardinalStepsFrom(delta, xdone + 1, ydone)
        stepy == <<ydir>> \o CardinalStepsFrom(delta, xdone, ydone + 1)
    IN  IF xdone = adx /\ ydone = ady THEN << >>
        ELSE IF ydone = ady THEN stepx
        ELSE IF xdone = adx THEN stepy
        ELSE IF (2 * xdone + 1) * ady <= (2 * ydone + 1) * adx THEN stepx
        ELSE stepy

CardinalStepIterNew(delta) == CardinalStepsFrom(delta, 0, 0)

(***************************************************************************)
(* Contexts                                                                *)
(***************************************************************************)
NewWorld(size) ==
    [entity_allocator |-> NewEntityAllocator,
     components |-> NewComponents,
     spatial_table |-> NewSpatialTable(size)]

Context(w, d) == [world |-> w, log |-> << >>, panic |-> NoPanic, deaths |-> d]

Panic(x, reason) == IF x.panic = NoPanic THEN [x EXCEPT !.panic = reason] ELSE x

Push(x, message) == [x EXCEPT !.log = Append(@, message)]

DeathsOf(d, e) == IF Has(d, e) THEN d[e] ELSE 0

(***************************************************************************)
(* Spawning                                                                *)
(***************************************************************************)
\* alloc, then spatial_table.update(..).unwrap()
SpawnAt(x, coord, layer) ==
    LET a == Alloc(x.world.entity_allocator)
        u == SpatialUpdate(x.world.spatial_table, a.entity,
                           [coord |-> coord, layer |-> layer])
    IN  IF u.ok
        THEN [entity |-> a.entity,
              x |-> [x EXCEPT !.world.entity_allocator = a.ea,
                              !.world.spatial_table = u.st]]
        ELSE [entity |-> a.entity, x |-> Panic(x, "spawn: cell occupied")]

SpawnWall(x, coord) ==
    LET s == SpawnAt(x, coord, "feature")
    IN  IF s.x.panic # NoPanic THEN s.x
        ELSE [s.x EXCEPT !.world.components.tile = Put(@, s.entity, <<"Wall">>)]

SpawnFloor(x, coord) ==
    LET s == SpawnAt(x, coord, "floor")
    IN  IF s.x.panic # NoPanic THEN s.x
        ELSE [s.x EXCEPT !.world.components.tile = Put(@, s.entity, <<"Floor">>)]

SpawnPlayer(x, coord) ==
    LET s == SpawnAt(x, coord, "character")
    IN  IF s.x.panic # NoPanic THEN s
        ELSE [entity |-> s.entity,
              x |-> [s.x EXCEPT
                       !.world.components.tile = Put(@, s.entity, <<"Player">>),
                       !.world.components.hit_points =
                           Put(@, s.entity, [current |-> PlayerMaxHitPoints,
                                             max |-> PlayerMaxHitPoints]),
                       !.world.components.inventory =
                           Put(@, s.entity, NewInventory(PlayerInventoryCapacity))]]

NpcMaxHitPoints(npc_type) ==
    IF npc_type = "Orc" THEN OrcMaxHitPoints ELSE TrollMaxHitPoints

SpawnNpc(x, coord, npc_type) ==
    LET s == SpawnAt(x, coord, "character")
    IN  IF s.x.panic # NoPanic THEN s
        ELSE [entity |-> s.entity,
              x |-> [s.x EXCEPT
                       !.world.components.tile = Put(@, s.entity, <<"Npc", npc_type>>),
                       !.world.components.npc_type = Put(@, s.entity, npc_type),
                       !.world.components.hit_points =
                           Put(@, s.entity, [current |-> NpcMaxHitPoints(npc_type),
                                             max |-> NpcMaxHitPoints(npc_type)])]]

SpawnItem(x, coord, item_type) ==
    LET s == SpawnAt(x, coord, "object")
    IN  IF s.x.panic # NoPanic THEN s.x
        ELSE [s.x EXCEPT
                !.world.components.tile = Put(@, s.entity, <<"Item", item_type>>),
                !.world.components.item = Put(@, s.entity, item_type)]

\* Faulty variant of SpawnProjectile: the trajectory leads from the target
\* to the user.
SpawnProjectileBackwards(x, from, to, projectile_type) ==
    LET s == SpawnAt(x, from, "projectile")
    IN  IF s.x.panic # NoPanic THEN Panic(x, "spawn_projectile: cell occupied")
        ELSE [s.x EXCEPT
                !.world.components.tile =
                    Put(@, s.entity, <<"Projectile", projectile_type>>),
                !.world.components.projectile = Put(@, s.entity, projectile_type),
                !.world.components.trajectory =
                    Put(@, s.entity, CardinalStepIterNew(CoordSub(from, to)))]

SpawnProjectile(x, from, to, projectile_type) ==
    LET s == SpawnAt(x, from, "projectile")
    IN  IF s.x.panic # NoPanic THEN Panic(x, "spawn_projectile: cell occupied")
        ELSE [s.x EXCEPT
                !.world.components.tile =
                    Put(@, s.entity, <<"Projectile", projectile_type>>),
                !.world.components.projectile = Put(@, s.entity, projectile_type),
                !.world.components.trajectory =
                    Put(@, s.entity, CardinalStepIterNew(CoordSub(to, from)))]

(***************************************************************************)
(* populate: the terrain is walked row by row                              *)
(***************************************************************************)
TerrainNpcType(t) == IF t = "o" THEN "Orc" ELSE "Troll"
TerrainItemType(t) == IF t = "h" THEN "HealthPotion" ELSE "FireballScroll"

RECURSIVE PopulateFrom(_, _, _)
PopulateFrom(p, terrain, k) ==
    LET width == GridWidth(terrain)
        coord == <<k % width, k \div width>>
        t == terrain[coord[2] + 1][coord[1] + 1]
        player == SpawnPlayer(SpawnFloor(p.x, coord), coord)
        npc == SpawnNpc(p.x, coord, TerrainNpcType(t))
        next ==
            CASE t = "P" -> [p EXCEPT !.x = player.x, !.player_entity = player.entity]
              [] t = "." -> [p EXCEPT !.x = SpawnFloor(p.x, coord)]
              [] t = "#" -> [p EXCEPT !.x = SpawnWall(SpawnFloor(p.x, coord), coord)]
              [] t \in {"o", "T"} ->
                   [p EXCEPT !.x = SpawnFloor(npc.x, coord),
                             !.ai_state = @ \cup {npc.entity}]
              [] t \in {"h", "f"} ->
                   [p EXCEPT !.x = SpawnFloor(SpawnItem(p.x, coord, TerrainItemType(t)),
                                              coord)]
    IN  IF k = width * GridHeight(terrain) THEN p
        ELSE PopulateFrom(next, terrain, k + 1)

Populate(terrain) ==
    PopulateFrom([x |-> Context(NewWorld(<<GridWidth(terrain), GridHeight(terrain)>>),
                                EmptyTable),
                  player_entity |-> None, ai_state |-> {}],
                 terrain, 0)

(***************************************************************************)
(* Queries                                                                 *)
(***************************************************************************)
IsLivingCharacter(w, e) == LayerOf(w.spatial_table, e) = "character"

HasProjectiles(w) == DOMAIN w.components.trajectory # {}

HitPoints(w, e) == w.components.hit_points[e]


(***************************************************************************)
(* remove_entity                                                           *)
(***************************************************************************)
\* Faulty variant of RemoveEntity: the attributes are left behind.
RemoveEntityKeepsComponents(x, e) ==
    [x EXCEPT !.world.spatial_table = SpatialRemove(@, e),
              !.world.entity_allocator = Free(@, e)]

RemoveEntity(x, e) ==
    [x EXCEPT !.world.components = ComponentsRemoveEntity(@, e),
              !.world.spatial_table = SpatialRemove(@, e),
              !.world.entity_allocator = Free(@, e)]

(***************************************************************************)
(* Combat                                                                  *)
(***************************************************************************)
WriteCombatLogMessages(x, attacker_is_player, victim_dies, npc_type) ==
    IF attacker_is_player
    THEN IF victim_dies THEN Push(x, <<"PlayerKillsNpc", npc_type>>)
         ELSE Push(x, <<"PlayerAttacksNpc", npc_type>>)
    ELSE IF victim_dies THEN Push(x, <<"NpcKillsPlayer", npc_type>>)
         ELSE Push(x, <<"NpcAttacksPlayer", npc_type>>)

CorpseTile(x, entity) ==
    LET tiles == x.world.components.tile
    IN  IF ~Has(tiles, entity) THEN Panic(x, "character_die: no tile")
        ELSE IF tiles[entity] = <<"Player">>
        THEN [x EXCEPT !.world.components.tile[entity] = <<"PlayerCorpse">>]
        ELSE IF tiles[entity][1] = "Npc"
        THEN [x EXCEPT !.world.components.tile[entity] =
                           <<"NpcCorpse", tiles[entity][2]>>]
        ELSE Panic(x, "unexpected tile on character")

\* Faulty variant of CharacterDie: update_layer(..).unwrap(), no object is displaced.
CharacterDieNoRetry(x, entity) ==
    LET counted == [x EXCEPT !.deaths = Put(@, entity, DeathsOf(@, entity) + 1)]
        first == SpatialUpdateLayer(x.world.spatial_table, entity, "object")
    IN  IF x.panic # NoPanic THEN x
        ELSE IF first.ok
        THEN CorpseTile([counted EXCEPT !.world.spatial_table = first.st], entity)
        ELSE Panic(counted, "character_die: still occupied")

\* Faulty variant of CharacterDie: the tile becomes a corpse, the layer stays.
CharacterDieKeepsLayer(x, entity) ==
    IF x.panic # NoPanic THEN x
    ELSE CorpseTile([x EXCEPT !.deaths = Put(@, entity, DeathsOf(@, entity) + 1)],
                    entity)

CharacterDie(x, entity) ==
    LET counted == [x EXCEPT !.deaths = Put(@, entity, DeathsOf(@, entity) + 1)]
        first == SpatialUpdateLayer(x.world.spatial_table, entity, "object")
        removed == RemoveEntity(counted, first.occupied_by)
        second == SpatialUpdateLayer(removed.world.spatial_table, entity, "object")
        placed ==
            IF first.ok THEN [counted EXCEPT !.world.spatial_table = first.st]
            ELSE IF first.occupied_by = None
            THEN Panic(counted, "character_die: not occupied")
            ELSE IF second.ok
            THEN [removed EXCEPT !.world.spatial_table = second.st]
            ELSE Panic(removed, "character_die: still occupied")
    IN  IF x.panic # NoPanic THEN x
        ELSE IF placed.panic # NoPanic THEN placed
        ELSE CorpseTile(placed, entity)

\* hit_points.current.saturating_sub(damage)
Damaged(current, damage) == SaturatingSub(current, damage)

CharacterDamage(x, victim, damage) ==
    LET hp == x.world.components.hit_points
        current == Damaged(hp[victim].current, damage)
        hurt == [x EXCEPT !.world.components.hit_points[victim].current = current]
    IN  IF x.panic # NoPanic \/ ~Has(hp, victim)
        THEN [x |-> x, victim_dies |-> FALSE]
        ELSE IF current = 0
        THEN [x |-> CharacterDie(hurt, victim), victim_dies |-> TRUE]
        ELSE [x |-> hurt, victim_dies |-> FALSE]

\* Faulty variant of CharacterBumpAttack: a bump hits as hard as a fireball.
CharacterBumpAttackHard(x, victim) == CharacterDamage(x, victim, FireballDamage)

CharacterBumpAttack(x, victim) == CharacterDamage(x, victim, BumpDamage)

(***************************************************************************)
(* maybe_move_character.  The method returns nothing; ret names the branch *)
(* it took: "OutOfBounds", "Attack", "Ignored", "Moved" or "Blocked".      *)
(***************************************************************************)
\* Faulty variant of BumpIsAttack: any bump that involves an NPC is an attack.
BumpIsAttackAnyNpc(character_is_npc, dest_character_is_npc) ==
    character_is_npc \/ dest_character_is_npc

\* character_is_npc.is_some() != dest_character_is_npc.is_some()
BumpIsAttack(character_is_npc, dest_character_is_npc) ==
    character_is_npc # dest_character_is_npc

\* Faulty variant of CanEnter: walls are not looked at.
CanEnterAnything(dest_layers) == TRUE

\* dest_layers.feature.is_none()
CanEnter(dest_layers) == dest_layers.feature = None

MaybeMoveCharacter(x, character_entity, direction) ==
    LET st == x.world.spatial_table
        npc_types == x.world.components.npc_type
        new_character_coord ==
            CoordAdd(CoordOf(st, character_entity), DirectionCoord(direction))
        dest_layers == LayersAtChecked(st, new_character_coord)
        dest_character_entity == dest_layers.character
        character_is_npc == Has(npc_types, character_entity)
        dest_character_is_npc == Has(npc_types, dest_character_entity)
        attack == CharacterBumpAttack(x, dest_character_entity)
        npc_type == IF character_is_npc THEN npc_types[character_entity]
                    ELSE npc_types[dest_character_entity]
        moved == SpatialUpdateCoord(st, character_entity, new_character_coord)
    IN  IF ~HasCoord(st, character_entity)
        THEN [x |-> Panic(x, "character has no coord"), ret |-> "Unit"]
        ELSE IF ~IsValid(new_character_coord, st.grid_size)
        THEN [x |-> x, ret |-> "OutOfBounds"]
        ELSE IF dest_character_entity # None
        THEN IF BumpIsAttack(character_is_npc, dest_character_is_npc)
             THEN [x |-> WriteCombatLogMessages(attack.x, ~character_is_npc,
                                                attack.victim_dies, npc_type),
                   ret |-> "Attack"]
             ELSE [x |-> x, ret |-> "Ignored"]
        ELSE IF CanEnter(dest_layers)
        THEN IF moved.ok
             THEN [x |-> [x EXCEPT !.world.spatial_table = moved.st], ret |-> "Moved"]
             ELSE [x |-> Panic(x, "maybe_move_character: update_coord"),
                   ret |-> "Unit"]
        ELSE [x |-> x, ret |-> "Blocked"]

(***************************************************************************)
(* Items.  These return [x, ret]: ret is "Ok", "Err", "Immediate", "Aim".  *)
(* inventory.insert and inventory.remove work on the inventory in place:  *)
(* the slots they leave are the inventory's, also when they answer Err.   *)
(***************************************************************************)
MaybeGetItem(x, character) ==
    LET st == x.world.spatial_table
        c == x.world.components
        object_entity == LayersAtChecked(st, CoordOf(st, character)).object
        inserted == InventoryInsert(c.inventory[character], object_entity)
    IN  IF ~HasCoord(st, character)
        THEN [x |-> Panic(x, "character has no coord"), ret |-> "Err"]
        ELSE IF object_entity # None /\ Has(c.item, object_entity)
        THEN IF ~Has(c.inventory, character)
             THEN [x |-> Panic(x, "character has no inventory"), ret |-> "Err"]
             ELSE IF inserted.ok
             THEN [x |-> Push([x EXCEPT
                                 !.world.components.inventory[character] = inserted.slots,
                                 !.world.spatial_table = SpatialRemove(@, object_entity)],
                              <<"PlayerGets", c.item[object_entity]>>),
                   ret |-> "Ok"]
             ELSE [x |-> Push([x EXCEPT
                                 !.world.components.inventory[character] = inserted.slots],
                              <<"PlayerInventoryIsFull">>),
                   ret |-> "Err"]
        ELSE [x |-> Push(x, <<"NoItemUnderPlayer">>), ret |-> "Err"]

\* Faulty variant of Healed: the cap at max is forgotten.
HealedUncapped(hit_points) == hit_points.current + HEALTH_TO_HEAL

\* Faulty variant of Healed: a potion restores every hit point.
HealedToMax(hit_points) == hit_points.max

\* hit_points.max.min(hit_points.current + HEALTH_TO_HEAL)
Healed(hit_points) == Min(hit_points.max, hit_points.current + HEALTH_TO_HEAL)

MaybeUseItem(x, character, inventory_index) ==
    LET c == x.world.components
        got == InventoryGet(c.inventory[character], inventory_index)
        hp == c.hit_points[character]
        taken == InventoryRemove(c.inventory[character], inventory_index)
    IN  IF ~Has(c.inventory, character)
        THEN [x |-> Panic(x, "character has no inventory"), ret |-> "Err"]
        ELSE IF ~got.ok
        THEN [x |-> Push(x, <<"NoItemInInventorySlot">>), ret |-> "Err"]
        ELSE IF ~Has(c.item, got.entity)
        THEN [x |-> Panic(x, "non-item in inventory"), ret |-> "Err"]
        ELSE IF c.item[got.entity] = "HealthPotion"
        THEN IF ~Has(c.hit_points, character)
             THEN [x |-> Panic(x, "character has no hit points"), ret |-> "Err"]
             ELSE [x |-> Push([x EXCEPT
                                 !.world.components.hit_points[character].current =
                                     Healed(hp),
                                 !.world.components.inventory[character] = taken.slots],
                              <<"PlayerHeals">>),
                   ret |-> "Immediate"]
        ELSE [x |-> x, ret |-> "Aim"]

MaybeUseItemAim(x, character, inventory_index, target) ==
    LET st == x.world.spatial_table
        c == x.world.components
        character_coord == CoordOf(st, character)
        taken == InventoryRemove(c.inventory[character], inventory_index)
        consumed == [x EXCEPT !.world.components.inventory[character] = taken.slots]
    IN  IF ~HasCoord(st, character)
        THEN [x |-> Panic(x, "maybe_use_item_aim: no coord"), ret |-> "Err"]
        ELSE IF character_coord = target THEN [x |-> x, ret |-> "Err"]
        ELSE IF ~Has(c.inventory, character)
        THEN [x |-> Panic(x, "character has no inventory"), ret |-> "Err"]
        ELSE IF ~taken.ok
        THEN [x |-> Panic(x, "maybe_use_item_aim: empty slot"), ret |-> "Err"]
        ELSE IF ~Has(c.item, taken.entity)
        THEN [x |-> Panic(x, "maybe_use_item_aim: non-item"), ret |-> "Err"]
        ELSE IF c.item[taken.entity] = "HealthPotion"
        THEN [x |-> Panic(x, "invalid item for aim"), ret |-> "Err"]
        ELSE [x |-> SpawnProjectile(
                        Push(consumed, <<"PlayerLaunchesProjectile", "Fireball">>),
                        character_coord, target, "Fireball"),
              ret |-> "Ok"]

\* Faulty variant of MaybeDropItem: the slot is looked at before the ground.
MaybeDropItemSlotFirst(x, character, inventory_index) ==
    LET st == x.world.spatial_table
        c == x.world.components
        coord == CoordOf(st, character)
        taken == InventoryRemove(c.inventory[character], inventory_index)
        placed == SpatialUpdate(st, taken.entity, [coord |-> coord, layer |-> "object"])
    IN  IF ~taken.ok
        THEN [x |-> Push(x, <<"NoItemInInventorySlot">>), ret |-> "Err"]
        ELSE IF LayersAtChecked(st, coord).object # None
        THEN [x |-> Push(x, <<"NoSpaceToDropItem">>), ret |-> "Err"]
        ELSE [x |-> Push([x EXCEPT
                            !.world.components.inventory[character] = taken.slots,
                            !.world.spatial_table = placed.st],
                         <<"PlayerDrops", c.item[taken.entity]>>),
              ret |-> "Ok"]

MaybeDropItem(x, character, inventory_index) ==
    LET st == x.world.spatial_table
        c == x.world.components
        coord == CoordOf(st, character)
        taken == InventoryRemove(c.inventory[character], inventory_index)
        placed == SpatialUpdate(st, taken.entity, [coord |-> coord, layer |-> "object"])
    IN  IF ~HasCoord(st, character)
        THEN [x |-> Panic(x, "character has no coord"), ret |-> "Err"]
        ELSE IF LayersAtChecked(st, coord).object # None
        THEN [x |-> Push(x, <<"NoSpaceToDropItem">>), ret |-> "Err"]
        ELSE IF ~Has(c.inventory, character)
        THEN [x |-> Panic(x, "character has no inventory"), ret |-> "Err"]
        ELSE IF ~taken.ok
        THEN [x |-> Push([x EXCEPT
                            !.world.components.inventory[character] = taken.slots],
                         <<"NoItemInInventorySlot">>),
              ret |-> "Err"]
        ELSE IF ~placed.ok
        THEN [x |-> Panic(x, "maybe_drop_item: update"), ret |-> "Err"]
        ELSE IF ~Has(c.item, taken.entity)
        THEN [x |-> Panic(x, "non-item in inventory"), ret |-> "Err"]
        ELSE [x |-> Push([x EXCEPT
                            !.world.components.inventory[character] = taken.slots,
                            !.world.spatial_table = placed.st],
                         <<"PlayerDrops", c.item[taken.entity]>>),
              ret |-> "Ok"]


(***************************************************************************)
(* move_projectiles                                                        *)
(***************************************************************************)
RECURSIVE SortByIndex(_, _)
SortByIndex(ea, entities) ==
    IF entities = {} THEN << >>
    ELSE LET e == CHOOSE e \in entities :
                      \A f \in entities : IndexOf(ea, e) <= IndexOf(ea, f)
         IN  <<e>> \o SortByIndex(ea, entities \ {e})

\* components.trajectory.iter_mut(): the projectiles in index order
TrajectoryIter(w) == SortByIndex(w.entity_allocator, DOMAIN w.components.trajectory)

\* Faulty variant of Advance: the coordinate is updated whether or not the cell is taken.
AdvanceRegardless(st, entity, new_coord) ==
    LET old == st.location_component[entity]
    IN  [st EXCEPT
           !.location_component[entity].coord = new_coord,
           !.spatial_grid = [[@ EXCEPT ![old.coord][old.layer] = None]
                                EXCEPT ![new_coord][old.layer] = entity]]

\* let _ = update_coord(entity, new_coord): a refused update is ignored and
\* leaves the table as it was.
Advance(st, entity, new_coord) == SpatialUpdateCoord(st, entity, new_coord).st

\* Faulty variant of ScanProjectile: trajectory.next() does not use up the step.
ScanProjectileKeepsStep(s, entity) ==
    LET x == s.x
        st == x.world.spatial_table
        trajectory == x.world.components.trajectory[entity]
        new_coord == CoordAdd(CoordOf(st, entity), DirectionCoord(Head(trajectory)))
        dest_layers == LayersAtChecked(st, new_coord)
        advanced == [x EXCEPT !.world.spatial_table = Advance(st, entity, new_coord)]
    IN  IF x.panic # NoPanic THEN s
        ELSE IF trajectory = << >>
        THEN [s EXCEPT !.entities_to_remove = Append(@, entity)]
        ELSE IF ~IsValid(new_coord, st.grid_size)
        THEN [s EXCEPT !.x = Panic(x, "move_projectiles: out of bounds")]
        ELSE IF dest_layers.feature # None
        THEN [s EXCEPT !.x = advanced, !.entities_to_remove = Append(@, entity)]
        ELSE IF dest_layers.character # None
        THEN [s EXCEPT !.x = advanced,
                       !.entities_to_remove = Append(@, entity),
                       !.fireball_hit = Append(@, dest_layers.character)]
        ELSE [s EXCEPT !.x = advanced]

\* One turn of the scan loop; s = [x, entities_to_remove, fireball_hit].
ScanProjectile(s, entity) ==
    LET x == s.x
        st == x.world.spatial_table
        trajectory == x.world.components.trajectory[entity]
        stepped == [x EXCEPT !.world.components.trajectory[entity] = Tail(trajectory)]
        new_coord == CoordAdd(CoordOf(st, entity), DirectionCoord(Head(trajectory)))
        dest_layers == LayersAtChecked(st, new_coord)
        advanced == [stepped EXCEPT !.world.spatial_table =
                                        Advance(st, entity, new_coord)]
    IN  IF x.panic # NoPanic THEN s
        ELSE IF trajectory = << >>
        THEN [s EXCEPT !.entities_to_remove = Append(@, entity)]
        ELSE IF ~HasCoord(st, entity)
        THEN [s EXCEPT !.x = Panic(x, "move_projectiles: no coord")]
        ELSE IF ~IsValid(new_coord, st.grid_size)
        THEN [s EXCEPT !.x = Panic(x, "move_projectiles: out of bounds")]
        ELSE IF dest_layers.feature # None
        THEN [s EXCEPT !.x = advanced, !.entities_to_remove = Append(@, entity)]
        ELSE IF dest_layers.character # None
        THEN [s EXCEPT !.x = advanced,
                       !.entities_to_remove = Append(@, entity),
                       !.fireball_hit =
                           IF Has(x.world.components.projectile, entity)
                           THEN Append(@, dest_layers.character) ELSE @]
        ELSE [s EXCEPT !.x = advanced]

RECURSIVE ScanFrom(_, _, _)
ScanFrom(s, order, i) ==
    IF i > Len(order) THEN s ELSE ScanFrom(ScanProjectile(s, order[i]), order, i + 1)

RECURSIVE RemoveFrom(_, _, _)
RemoveFrom(x, entities, i) ==
    IF i > Len(entities) THEN x
    ELSE RemoveFrom(RemoveEntity(x, entities[i]), entities, i + 1)

\* Faulty variant of ApplyFireballHit: a fireball hits no harder than a bump.
ApplyFireballHitAsBump(x, entity) ==
    LET npc_types == x.world.components.npc_type
        hit == CharacterDamage(x, entity, BumpDamage)
    IN  IF x.panic # NoPanic THEN x
        ELSE IF hit.victim_dies /\ hit.x.panic = NoPanic /\ Has(npc_types, entity)
        THEN Push(hit.x, <<"NpcDies", npc_types[entity]>>)
        ELSE hit.x

ApplyFireballHit(x, entity) ==
    LET npc_types == x.world.components.npc_type
        hit == CharacterDamage(x, entity, FireballDamage)
    IN  IF x.panic # NoPanic THEN x
        ELSE IF hit.victim_dies /\ hit.x.panic = NoPanic /\ Has(npc_types, entity)
        THEN Push(hit.x, <<"NpcDies", npc_types[entity]>>)
        ELSE hit.x

RECURSIVE HitFrom(_, _, _)
HitFrom(x, victims, i) ==
    IF i > Len(victims) THEN x
    ELSE HitFrom(ApplyFireballHit(x, victims[i]), victims, i + 1)

MoveProjectilesIn(x, order) ==
    LET scanned == ScanFrom([x |-> x, entities_to_remove |-> << >>,
                             fireball_hit |-> << >>], order, 1)
    IN  IF scanned.x.panic # NoPanic THEN scanned.x
        ELSE HitFrom(RemoveFrom(scanned.x, scanned.entities_to_remove, 1),
                     scanned.fireball_hit, 1)

MoveProjectiles(x) == MoveProjectilesIn(x, TrajectoryIter(x.world))

(***************************************************************************)
(* The launch that flight follows.  A fireball is followed from a launch   *)
(* with no other projectile in flight at a character standing distance     *)
(* cells away along one axis with no Feature and no Character in between,  *)
(* for as long as the target stands there alive, nobody steps in between   *)
(* and no other projectile is launched, up to the call that is the         *)
(* distance-th after the launch.                                           *)
(***************************************************************************)
NoFlight ==
    [projectile |-> None, target |-> None, origin |-> <<0, 0>>,
     direction |-> "North", distance |-> 0, calls |-> 0]

\* The cell k steps from origin in direction.
CellAt(origin, direction, k) ==
    <<origin[1] + k * DirectionCoord(direction)[1],
      origin[2] + k * DirectionCoord(direction)[2]>>

\* Nothing but floor, objects and projectiles between origin and the target.
ClearBetween(w, origin, direction, distance) ==
    \A k \in 1 .. distance - 1 :
        LET layers == LayersAtChecked(w.spatial_table, CellAt(origin, direction, k))
        IN  layers.feature = None /\ layers.character = None

StraightDirection(from, to) ==
    IF to[1] = from[1] THEN (IF to[2] > from[2] THEN "South" ELSE "North")
    ELSE (IF to[1] > from[1] THEN "East" ELSE "West")

\* flight after a successful maybe_use_item_aim(.., target) in before.
Launched(before, after, character, target) ==
    LET st == before.spatial_table
        from == CoordOf(st, character)
        delta == CoordSub(target, from)
        direction == StraightDirection(from, target)
        distance == Abs(delta[1]) + Abs(delta[2])
        victim == LayersAtChecked(st, target).character
    IN  IF /\ ~HasProjectiles(before)
           /\ (delta[1] = 0) # (delta[2] = 0)
           /\ victim # None
           /\ ClearBetween(before, from, direction, distance)
        THEN [projectile |-> CHOOSE e \in DOMAIN after.components.trajectory : TRUE,
              target |-> victim, origin |-> from, direction |-> direction,
              distance |-> distance, calls |-> 0]
        ELSE NoFlight

\* flight f in world w: followed while the target stands where it stood.
StillTracked(f, w) ==
    IF /\ f.projectile # None
       /\ LayersAtChecked(w.spatial_table,
                          CellAt(f.origin, f.direction, f.distance)).character
              = f.target
       /\ ClearBetween(w, f.origin, f.direction, f.distance)
    THEN f
    ELSE NoFlight

\* flight after a move_projectiles call: one more call, and the distance-th
\* call is the last one followed.
AfterMoveProjectiles(f, w) ==
    IF f.projectile = None THEN NoFlight
    ELSE IF f.calls + 1 = f.distance
    THEN [f EXCEPT !.calls = f.distance, !.projectile = None]
    ELSE StillTracked([f EXCEPT !.calls = @ + 1], w)

(***************************************************************************)
(* The calls.  A call that ends in a fatal error stops the program: fatal  *)
(* records why and the world is left as it was before the call.            *)
(***************************************************************************)
Running == fatal = NoPanic

Here == Context(world, deaths)

Commit(y, op, ret) ==
    /\ fatal' = y.panic
    /\ deaths' = y.deaths
    /\ result' = [op |-> op, ret |-> IF y.panic = NoPanic THEN ret ELSE "Panic"]
    /\ world' = IF y.panic = NoPanic THEN y.world ELSE world
    /\ message_log' = IF y.panic = NoPanic THEN y.log ELSE << >>
    /\ UNCHANGED <<player_entity, ai_state, inv, inv_result>>

PlayerAlive == IsLivingCharacter(world, player_entity)

Slots == 0 .. PlayerInventoryCapacity

SlotHolds(w, character, inventory_index, item_type) ==
    LET got == InventoryGet(w.components.inventory[character], inventory_index)
    IN  /\ got.ok
        /\ Has(w.components.item, got.entity)
        /\ w.components.item[got.entity] = item_type

\* The turn of a living character: the player, or an NPC of ai_state.
CallMaybeMoveCharacter(character_entity, direction) ==
    /\ Running
    /\ character_entity \in {player_entity} \cup ai_state
    /\ IsLivingCharacter(world, character_entity)
    /\ LET r == MaybeMoveCharacter(Here, character_entity, direction)
       IN  Commit(r.x, "maybe_move_character", r.ret)
    /\ flight' = StillTracked(flight, world')

CallMaybeGetItem ==
    /\ Running
    /\ PlayerAlive
    /\ LET r == MaybeGetItem(Here, player_entity)
       IN  Commit(r.x, "maybe_get_item", r.ret)
    /\ flight' = StillTracked(flight, world')

CallMaybeUseItem(inventory_index) ==
    /\ Running
    /\ PlayerAlive
    /\ LET r == MaybeUseItem(Here, player_entity, inventory_index)
       IN  Commit(r.x, "maybe_use_item", r.ret)
    /\ flight' = StillTracked(flight, world')

\* The aim step follows a use that answered Aim: the slot holds a scroll.
CallMaybeUseItemAim(inventory_index, target) ==
    /\ Running
    /\ PlayerAlive
    /\ SlotHolds(world, player_entity, inventory_index, "FireballScroll")
    /\ LET r == MaybeUseItemAim(Here, player_entity, inventory_index, target)
       IN  Commit(r.x, "maybe_use_item_aim", r.ret)
    /\ flight' = IF result'.ret = "Ok"
                 THEN Launched(world, world', player_entity, target)
                 ELSE StillTracked(flight, world')

CallMaybeDropItem(inventory_index) ==
    /\ Running
    /\ PlayerAlive
    /\ LET r == MaybeDropItem(Here, player_entity, inventory_index)
       IN  Commit(r.x, "maybe_drop_item", r.ret)
    /\ flight' = StillTracked(flight, world')

CallMoveProjectiles ==
    /\ Running
    /\ Commit(MoveProjectiles(Here), "move_projectiles", "Unit")
    /\ flight' = IF fatal' = NoPanic THEN AfterMoveProjectiles(flight, world')
                 ELSE NoFlight

InitWorld(w) ==
    LET p == Populate(w.terrain)
    IN  /\ world = p.x.world
        /\ message_log = << >>
        /\ result = [op |-> "populate", ret |-> "Ok"]
        /\ fatal = p.x.panic
        /\ deaths = EmptyTable
        /\ player_entity = p.player_entity
        /\ ai_state = IF w.npc_turns THEN p.ai_state ELSE {}
        /\ flight = NoFlight
        /\ inv = NewInventory(0)
        /\ inv_result = NoCall

Init == \E w \in Worlds : InitWorld(w)

Entities == 1 .. world.entity_allocator.next_id - 1

Next ==
    \/ \E e \in Entities, d \in Directions : CallMaybeMoveCharacter(e, d)
    \/ CallMaybeGetItem
    \/ \E i \in Slots : CallMaybeUseItem(i)
    \/ \E i \in Slots, t \in GridCoords(world.spatial_table.grid_size) :
           CallMaybeUseItemAim(i, t)
    \/ \E i \in Slots : CallMaybeDropItem(i)
    \/ CallMoveProjectiles

Spec == Init /\ [][Next]_vars


(***************************************************************************)
(* An Inventory on its own: created with some capacity, then any sequence  *)
(* of insert, remove and get, with indices up to one past the last slot.   *)
(***************************************************************************)
NoWorld ==
    /\ world = NewWorld(<<0, 0>>)
    /\ message_log = << >>
    /\ result = [op |-> "none", ret |-> "Unit"]
    /\ fatal = NoPanic
    /\ deaths = EmptyTable
    /\ player_entity = None
    /\ ai_state = {}
    /\ flight = NoFlight

WorldUnchanged ==
    UNCHANGED <<world, message_log, result, fatal, deaths, player_entity,
                ai_state, flight>>

InitInventory ==
    /\ NoWorld
    /\ \E capacity \in 0 .. MaxCapacity : inv = NewInventory(capacity)
    /\ inv_result = NoCall

CallInventoryInsert(item) ==
    /\ LET r == InventoryInsert(inv, item)
       IN  /\ inv' = r.slots
           /\ inv_result' = [op |-> "insert", arg |-> item, ok |-> r.ok,
                             entity |-> None]
    /\ WorldUnchanged

CallInventoryRemove(index) ==
    /\ LET r == InventoryRemove(inv, index)
       IN  /\ inv' = r.slots
           /\ inv_result' = [op |-> "remove", arg |-> index, ok |-> r.ok,
                             entity |-> r.entity]
    /\ WorldUnchanged

CallInventoryGet(index) ==
    /\ LET r == InventoryGet(inv, index)
       IN  /\ inv' = inv
           /\ inv_result' = [op |-> "get", arg |-> index, ok |-> r.ok,
                             entity |-> r.entity]
    /\ WorldUnchanged

NextInventory ==
    \/ \E item \in 1 .. MaxItem : CallInventoryInsert(item)
    \/ \E index \in 0 .. MaxCapacity : CallInventoryRemove(index)
    \/ \E index \in 0 .. MaxCapacity : CallInventoryGet(index)

SpecInventory == InitInventory /\ [][NextInventory]_vars


(***************************************************************************)
(* Properties                                                              *)
(***************************************************************************)
Loc == world.spatial_table.location_component
Grid == world.spatial_table.spatial_grid
Comp == world.components

Corpses == {e \in DOMAIN Comp.tile :
                Comp.tile[e] = <<"PlayerCorpse">> \/ Comp.tile[e][1] = "NpcCorpse"}

Destroyed == {e \in Entities : ~Exists(world.entity_allocator, e)}

\* C1: each (coordinate, layer) pair holds at most one entity, each entity
\* holds at most one pair, and coord_of / layer_of agree with layers_at.
C1_SpatialUniqueness ==
    /\ \A e1 \in DOMAIN Loc, e2 \in DOMAIN Loc :
           (Loc[e1].layer # NoLayer /\ Loc[e1] = Loc[e2]) => e1 = e2
    /\ \A e \in DOMAIN Loc :
           Loc[e].layer # NoLayer => Grid[Loc[e].coord][Loc[e].layer] = e
    /\ \A c \in DOMAIN Grid, l \in Layers :
           Grid[c][l] # None =>
               /\ Has(Loc, Grid[c][l])
               /\ Loc[Grid[c][l]] = [coord |-> c, layer |-> l]

\* Two projectiles are in flight after a move_projectiles call.
C1_Witness ==
    /\ fatal = NoPanic
    /\ result.op = "move_projectiles"
    /\ Cardinality({e \in DOMAIN Loc : Loc[e].layer = "projectile"}) >= 2

SpawnMaxHitPoints(e) ==
    IF Has(Comp.npc_type, e) THEN NpcMaxHitPoints(Comp.npc_type[e])
    ELSE PlayerMaxHitPoints

\* C2: for every entity with hit points 0 <= current <= max, and max is the
\* value given at spawn.
C2_HitPointBounds ==
    \A e \in DOMAIN Comp.hit_points :
        /\ 0 <= Comp.hit_points[e].current
        /\ Comp.hit_points[e].current <= Comp.hit_points[e].max
        /\ Comp.hit_points[e].max = SpawnMaxHitPoints(e)

\* The player has just drunk a potion and is still below max, and some
\* character has been brought to 0.
C2_Witness ==
    /\ result = [op |-> "maybe_use_item", ret |-> "Immediate"]
    /\ Comp.hit_points[player_entity].current < Comp.hit_points[player_entity].max
    /\ \E e \in DOMAIN Comp.hit_points : Comp.hit_points[e].current = 0

\* C4: an entity with 0 hit points is not a living character.
C4_DeadIsNotLiving ==
    \A e \in DOMAIN Comp.hit_points :
        Comp.hit_points[e].current = 0 => ~IsLivingCharacter(world, e)

\* A character has died: 0 hit points, on the Object layer.
C4_Witness ==
    /\ fatal = NoPanic
    /\ \E e \in DOMAIN Comp.hit_points :
           Comp.hit_points[e].current = 0 /\ LayerOf(world.spatial_table, e) = "object"

\* C9: a destroyed entity holds no attribute, occupies no cell and is in no
\* inventory slot.
C9_CompleteRemoval ==
    \A e \in Destroyed :
        /\ ~Has(Comp.tile, e) /\ ~Has(Comp.npc_type, e) /\ ~Has(Comp.hit_points, e)
        /\ ~Has(Comp.item, e) /\ ~Has(Comp.inventory, e)
        /\ ~Has(Comp.trajectory, e) /\ ~Has(Comp.projectile, e)
        /\ ~Has(Loc, e)
        /\ \A c \in DOMAIN Grid, l \in Layers : Grid[c][l] # e
        /\ \A o \in DOMAIN Comp.inventory :
               \A i \in DOMAIN Comp.inventory[o] : Comp.inventory[o][i] # e

\* move_projectiles has destroyed a projectile while the player holds an item.
C9_Witness ==
    /\ fatal = NoPanic
    /\ result.op = "move_projectiles"
    /\ Destroyed # {}
    /\ \E i \in DOMAIN Comp.inventory[player_entity] :
           Comp.inventory[player_entity][i] # None


\* C3: character_die runs at most once for any entity, and damage applied to
\* a character that is already dead does not end in a fatal error.
C3_OneDeathPerCharacter ==
    /\ \A e \in DOMAIN deaths : deaths[e] <= 1
    /\ fatal \notin {"unexpected tile on character", "character_die: no tile",
                     "character_die: not occupied", "character_die: still occupied"}


IsNpc(e) == Has(Comp.npc_type, e)

Dest(e, d) == CoordAdd(Loc[e].coord, DirectionCoord(d))

InGrid(coord) == IsValid(coord, world.spatial_table.grid_size)

\* The character on the cell e would move to (None: no one, or off the grid).
Occupant(e, d) == IF InGrid(Dest(e, d)) THEN Grid[Dest(e, d)].character ELSE None

CorpseOf(tile) ==
    IF tile = <<"Player">> THEN <<"PlayerCorpse">> ELSE <<"NpcCorpse", tile[2]>>

BumpMessage(e, d) ==
    LET v == Occupant(e, d)
        dies == Comp'.hit_points[v].current = 0
        kind == IF IsNpc(e) THEN Comp.npc_type[e] ELSE Comp.npc_type[v]
    IN  IF IsNpc(e)
        THEN <<IF dies THEN "NpcKillsPlayer" ELSE "NpcAttacksPlayer", kind>>
        ELSE <<IF dies THEN "PlayerKillsNpc" ELSE "PlayerAttacksNpc", kind>>

\* C5: a bump between the player and an NPC takes exactly 1 hit point from
\* the occupant, leaves the mover where it is and appends exactly one entry,
\* an Attacks or a Kills one by whether the victim reached 0, a Player or an
\* Npc one by who moved, of the NPC's kind; a victim that dies becomes the
\* corpse of its tile on the Object layer of its cell, whose Character layer
\* is left empty.
C5_BumpAttackOutcome ==
    [][\A e \in Entities, d \in Directions :
          (/\ result'.op = "maybe_move_character"
           /\ CallMaybeMoveCharacter(e, d)
           /\ Occupant(e, d) # None
           /\ IsNpc(e) # IsNpc(Occupant(e, d)))
          => LET v == Occupant(e, d)
             IN  /\ fatal' = NoPanic
                 /\ Comp'.hit_points[v].current = Comp.hit_points[v].current - 1
                 /\ Loc'[e] = Loc[e]
                 /\ message_log' = <<BumpMessage(e, d)>>
                 /\ Comp'.hit_points[v].current = 0 =>
                        /\ Comp'.tile[v] = CorpseOf(Comp.tile[v])
                        /\ Loc'[v] = [coord |-> Dest(e, d), layer |-> "object"]
                        /\ Grid'[Dest(e, d)].object = v
                        /\ Grid'[Dest(e, d)].character = None]_vars

\* The player's second bump has killed the 2-hit-point orc.
C5_Witness ==
    /\ result = [op |-> "maybe_move_character", ret |-> "Attack"]
    /\ message_log = << <<"PlayerKillsNpc", "Orc">> >>
    /\ \E v \in Corpses :
           /\ Comp.tile[v] = <<"NpcCorpse", "Orc">>
           /\ Comp.hit_points[v].current = 0
           /\ LayerOf(world.spatial_table, v) = "object"
           /\ Grid[CoordOf(world.spatial_table, v)].character = None

\* C6: a move onto an occupied Character cell attacks (the occupant loses
\* hit points) exactly when one of the two is an NPC and the other is not;
\* otherwise the world and the log stay as they are.
C6_BumpEligibility ==
    [][\A e \in Entities, d \in Directions :
          (/\ result'.op = "maybe_move_character"
           /\ CallMaybeMoveCharacter(e, d)
           /\ Occupant(e, d) # None)
          => LET v == Occupant(e, d)
             IN  /\ (Comp'.hit_points[v].current < Comp.hit_points[v].current)
                        <=> (IsNpc(e) # IsNpc(v))
                 /\ (IsNpc(e) = IsNpc(v)) =>
                        /\ world' = world
                        /\ message_log' = << >>
                        /\ fatal' = NoPanic]_vars

\* An NPC has bumped into another NPC next to it.
C6_Witness ==
    /\ result = [op |-> "maybe_move_character", ret |-> "Ignored"]
    /\ message_log = << >>
    /\ \E a \in ai_state, b \in ai_state :
           /\ a # b
           /\ IsLivingCharacter(world, a) /\ IsLivingCharacter(world, b)
           /\ \E d \in Directions : Occupant(a, d) = b

FreeToEnter(coord) ==
    /\ InGrid(coord)
    /\ Grid[coord].character = None
    /\ Grid[coord].feature = None

WallOrOutside(coord) == IF InGrid(coord) THEN Grid[coord].feature # None ELSE TRUE

\* C7: the mover ends on the adjacent cell exactly when that cell is in the
\* grid with empty Character and Feature layers, and stays put otherwise; a
\* cell off the grid or with a Feature leaves world and log untouched; the
\* mover keeps its layer, and a move changes no other entity's location.
C7_MovementRule ==
    [][\A e \in Entities, d \in Directions :
          (result'.op = "maybe_move_character" /\ CallMaybeMoveCharacter(e, d))
          => /\ fatal' = NoPanic
             /\ Has(Loc', e)
             /\ (Loc'[e].coord = Dest(e, d)) <=> FreeToEnter(Dest(e, d))
             /\ ~FreeToEnter(Dest(e, d)) => Loc'[e].coord = Loc[e].coord
             /\ WallOrOutside(Dest(e, d)) => (world' = world /\ message_log' = << >>)
             /\ Loc'[e].layer = Loc[e].layer
             /\ FreeToEnter(Dest(e, d)) =>
                    /\ DOMAIN Loc' = DOMAIN Loc
                    /\ \A o \in DOMAIN Loc \ {e} : Loc'[o] = Loc[o]]_vars

\* The player has walked away from the corner it was spawned on.
C7_Witness ==
    /\ result = [op |-> "maybe_move_character", ret |-> "Moved"]
    /\ IsLivingCharacter(world, player_entity)
    /\ CoordOf(world.spatial_table, player_entity) # <<0, 0>>

InNoTable(c, e) ==
    /\ ~Has(c.tile, e) /\ ~Has(c.npc_type, e) /\ ~Has(c.hit_points, e)
    /\ ~Has(c.item, e) /\ ~Has(c.inventory, e)
    /\ ~Has(c.trajectory, e) /\ ~Has(c.projectile, e)

\* C8: when character_die has run for a living character e (once, in a call
\* in which it ran at most once for every entity), e still exists, is on the
\* Object layer of the cell it died on with the corpse of its tile, any other
\* entity that held that Object slot is destroyed, and no fatal error occurred.
C8_CorpsePlacement ==
    [][\A e \in Entities :
          (/\ DeathsOf(deaths', e) = DeathsOf(deaths, e) + 1
           /\ IsLivingCharacter(world, e)
           /\ \A f \in Entities : DeathsOf(deaths', f) <= DeathsOf(deaths, f) + 1)
          => LET o == Grid[Loc[e].coord].object
             IN  /\ fatal' = NoPanic
                 /\ Exists(world'.entity_allocator, e)
                 /\ Loc'[e] = [coord |-> Loc[e].coord, layer |-> "object"]
                 /\ Grid'[Loc[e].coord].object = e
                 /\ Comp'.tile[e] = CorpseOf(Comp.tile[e])
                 /\ o # None =>
                        /\ ~Exists(world'.entity_allocator, o)
                        /\ InNoTable(Comp', o)
                        /\ ~Has(Loc', o)]_vars

\* A character has died on the cell of the only item of its world, which the
\* corpse has displaced.
C8_Witness ==
    /\ fatal = NoPanic
    /\ result = [op |-> "maybe_move_character", ret |-> "Attack"]
    /\ Corpses # {}
    /\ Destroyed # {}
    /\ DOMAIN Comp.item = {}
    /\ \A i \in DOMAIN Comp.inventory[player_entity] :
           Comp.inventory[player_entity][i] = None

\* C10: maybe_get_item answers Ok exactly when an item lies on the Object
\* layer of the character's cell and a slot is empty; then the item keeps its
\* attributes, leaves the spatial table and fills the lowest empty slot, and
\* PlayerGets is logged.  With an item and no empty slot it answers Err, logs
\* PlayerInventoryIsFull and changes nothing; with no item it answers Err,
\* logs NoItemUnderPlayer and changes nothing.
C10_Pickup ==
    [][(result'.op = "maybe_get_item" /\ CallMaybeGetItem)
       => LET coord == Loc[player_entity].coord
              obj == Grid[coord].object
              is_item == obj # None /\ Has(Comp.item, obj)
              slots == Comp.inventory[player_entity]
              room == \E i \in DOMAIN slots : slots[i] = None
          IN  /\ fatal' = NoPanic
              /\ (result'.ret = "Ok") <=> (is_item /\ room)
              /\ (is_item /\ room) =>
                     /\ message_log' = << <<"PlayerGets", Comp.item[obj]>> >>
                     /\ \E i \in DOMAIN slots :
                            /\ slots[i] = None
                            /\ \A j \in DOMAIN slots : j < i => slots[j] # None
                            /\ Comp' = [Comp EXCEPT !.inventory[player_entity][i] = obj]
                     /\ world'.spatial_table.location_component = Del(Loc, obj)
                     /\ Grid' = [Grid EXCEPT ![coord].object = None]
                     /\ world'.entity_allocator = world.entity_allocator
              /\ (is_item /\ ~room) =>
                     /\ result'.ret = "Err"
                     /\ message_log' = << <<"PlayerInventoryIsFull">> >>
                     /\ world' = world
              /\ ~is_item =>
                     /\ result'.ret = "Err"
                     /\ message_log' = << <<"NoItemUnderPlayer">> >>
                     /\ world' = world]_vars

\* The player stands on an item with every slot taken and was refused.
C10_Witness ==
    /\ result = [op |-> "maybe_get_item", ret |-> "Err"]
    /\ message_log = << <<"PlayerInventoryIsFull">> >>
    /\ \A i \in DOMAIN Comp.inventory[player_entity] :
           Comp.inventory[player_entity][i] # None
    /\ Has(Comp.item, Grid[CoordOf(world.spatial_table, player_entity)].object)

\* C11: maybe_drop_item answers Err, logs NoSpaceToDropItem and changes
\* nothing when the Object layer of the character's cell is taken, whatever
\* the slot holds; otherwise it answers Err, logs NoItemInInventorySlot and
\* changes nothing when the slot is empty or out of range; otherwise it
\* empties the slot, puts that item on the Object layer of the character's
\* cell and logs PlayerDrops(type).
C11_Drop ==
    [][\A i \in Slots :
         (result'.op = "maybe_drop_item" /\ CallMaybeDropItem(i))
         => LET coord == Loc[player_entity].coord
                blocked == Grid[coord].object # None
                slots == Comp.inventory[player_entity]
                held == i + 1 \in DOMAIN slots /\ slots[i + 1] # None
                item == slots[i + 1]
            IN  /\ fatal' = NoPanic
                /\ blocked =>
                       /\ result'.ret = "Err"
                       /\ message_log' = << <<"NoSpaceToDropItem">> >>
                       /\ world' = world
                /\ (~blocked /\ ~held) =>
                       /\ result'.ret = "Err"
                       /\ message_log' = << <<"NoItemInInventorySlot">> >>
                       /\ world' = world
                /\ (~blocked /\ held) =>
                       /\ result'.ret = "Ok"
                       /\ message_log' = << <<"PlayerDrops", Comp.item[item]>> >>
                       /\ Comp' = [Comp EXCEPT !.inventory[player_entity][i + 1] = None]
                       /\ world'.spatial_table.location_component =
                              Put(Loc, item, [coord |-> coord, layer |-> "object"])
                       /\ Grid' = [Grid EXCEPT ![coord].object = item]
                       /\ world'.entity_allocator = world.entity_allocator]_vars

\* The player, carrying an item, was refused a drop on a cell whose Object
\* layer is taken.
C11_Witness ==
    /\ result = [op |-> "maybe_drop_item", ret |-> "Err"]
    /\ message_log = << <<"NoSpaceToDropItem">> >>
    /\ \E i \in DOMAIN Comp.inventory[player_entity] :
           Comp.inventory[player_entity][i] # None
    /\ Grid[CoordOf(world.spatial_table, player_entity)].object # None

\* C12: maybe_use_item on a slot holding a HealthPotion sets the user's
\* current hit points to min(max, current + 5), empties the slot, logs
\* PlayerHeals and answers Immediate; on a slot holding a FireballScroll it
\* answers Aim, logs nothing and changes nothing; on an empty or out-of-range
\* slot it answers Err, logs NoItemInInventorySlot and changes nothing.
C12_TwoStepItemUse ==
    [][\A i \in Slots :
         (result'.op = "maybe_use_item" /\ CallMaybeUseItem(i))
         => LET slots == Comp.inventory[player_entity]
                held == i + 1 \in DOMAIN slots /\ slots[i + 1] # None
                item_type == Comp.item[slots[i + 1]]
                hp == Comp.hit_points[player_entity]
                healed == IF hp.current + 5 < hp.max THEN hp.current + 5 ELSE hp.max
            IN  /\ fatal' = NoPanic
                /\ ~held =>
                       /\ result'.ret = "Err"
                       /\ message_log' = << <<"NoItemInInventorySlot">> >>
                       /\ world' = world
                /\ (held /\ item_type = "FireballScroll") =>
                       /\ result'.ret = "Aim"
                       /\ message_log' = << >>
                       /\ world' = world
                /\ (held /\ item_type = "HealthPotion") =>
                       /\ result'.ret = "Immediate"
                       /\ message_log' = << <<"PlayerHeals">> >>
                       /\ world' = [world EXCEPT
                              !.components.hit_points[player_entity].current = healed,
                              !.components.inventory[player_entity][i + 1] = None]]_vars

\* A wounded player drank a potion and is still below the maximum.
C12_Witness ==
    /\ result = [op |-> "maybe_use_item", ret |-> "Immediate"]
    /\ message_log = << <<"PlayerHeals">> >>
    /\ Comp.hit_points[player_entity].current < Comp.hit_points[player_entity].max
    /\ Comp.hit_points[player_entity].current >= 5

\* C13: maybe_use_item_aim on a slot holding a FireballScroll, with a target
\* other than the user's cell, ends without a fatal error, also while an
\* earlier projectile is in flight: it answers Ok, empties the slot, logs
\* PlayerLaunchesProjectile(Fireball), and exactly one new entity exists,
\* on the Projectile layer of the user's cell, with the trajectory from that
\* cell to the target.
C13_AimedLaunch ==
    [][\A i \in Slots, t \in GridCoords(world.spatial_table.grid_size) :
         (/\ result'.op = "maybe_use_item_aim"
          /\ CallMaybeUseItemAim(i, t)
          /\ t # Loc[player_entity].coord)
         => LET coord == Loc[player_entity].coord
                new == {e \in DOMAIN world'.spatial_table.location_component :
                            ~Has(Loc, e)}
            IN  /\ fatal' = NoPanic
                /\ result'.ret = "Ok"
                /\ message_log' = << <<"PlayerLaunchesProjectile", "Fireball">> >>
                /\ Comp'.inventory =
                       [Comp.inventory EXCEPT ![player_entity][i + 1] = None]
                /\ Cardinality(new) = 1
                /\ \A e \in new :
                       /\ world'.spatial_table.location_component[e] =
                              [coord |-> coord, layer |-> "projectile"]
                       /\ Comp'.projectile = Put(Comp.projectile, e, "Fireball")
                       /\ Comp'.trajectory =
                              Put(Comp.trajectory, e,
                                  CardinalStepIterNew(CoordSub(t, coord)))]_vars

\* C14: a call of maybe_get_item, maybe_use_item, maybe_use_item_aim or
\* maybe_drop_item that answers failure has appended exactly one log entry.
C14_FailuresLogged ==
    (/\ result.op \in {"maybe_get_item", "maybe_use_item",
                       "maybe_use_item_aim", "maybe_drop_item"}
     /\ result.ret = "Err")
    => Len(message_log) = 1

\* C15: in a move_projectiles call every projectile that still has a
\* trajectory step is moved to its next coordinate, whatever else is on the
\* Projectile layer there: a projectile that is still in flight after the call
\* stands on the cell it had before plus the step it consumed.
C15_AdvanceUnconditional ==
    [][(result'.op = "move_projectiles" /\ CallMoveProjectiles /\ fatal' = NoPanic)
       => \A e \in DOMAIN Comp.trajectory :
              (Comp.trajectory[e] # << >> /\ Has(Comp'.trajectory, e))
              => /\ Comp'.trajectory[e] = Tail(Comp.trajectory[e])
                 /\ world'.spatial_table.location_component[e].coord =
                        CoordAdd(Loc[e].coord,
                                 DirectionCoord(Head(Comp.trajectory[e])))]_vars

\* What the scan of move_projectiles finds for projectile e in the state
\* before the call.
InFlight == DOMAIN Comp.trajectory

NextCell(e) == CoordAdd(Loc[e].coord, DirectionCoord(Head(Comp.trajectory[e])))

Exhausted(e) == Comp.trajectory[e] = << >>

HitsFeature(e) == ~Exhausted(e) /\ Grid[NextCell(e)].feature # None

HitsCharacter(e) ==
    /\ ~Exhausted(e)
    /\ Grid[NextCell(e)].feature = None
    /\ Grid[NextCell(e)].character # None

HitsOn(v) == {e \in InFlight : HitsCharacter(e) /\ Grid[NextCell(e)].character = v}

KilledNpcs ==
    {v \in DOMAIN Comp.npc_type :
         /\ HitsOn(v) # {}
         /\ Comp.hit_points[v].current <= FireballDamage * Cardinality(HitsOn(v))}

\* C16: in a move_projectiles call that runs to its end, a projectile whose
\* next cell holds a Feature, or else a Character, or that has no step left,
\* is destroyed, and every other projectile survives; each character loses 2
\* hit points, floored at 0, for every projectile whose next cell it stands
\* on (and no Feature), and nobody else loses any; the log receives one
\* NpcDies(kind) for each NPC brought to 0 and nothing else.
C16_ImpactResolution ==
    [][(result'.op = "move_projectiles" /\ CallMoveProjectiles /\ fatal' = NoPanic)
       => /\ \A e \in InFlight :
                 IF HitsFeature(e) \/ HitsCharacter(e) \/ Exhausted(e)
                 THEN /\ InNoTable(Comp', e)
                      /\ ~Has(world'.spatial_table.location_component, e)
                      /\ ~Exists(world'.entity_allocator, e)
                 ELSE /\ Has(Comp'.trajectory, e)
                      /\ Has(world'.spatial_table.location_component, e)
          /\ DOMAIN Comp'.hit_points = DOMAIN Comp.hit_points
          /\ \A v \in DOMAIN Comp.hit_points :
                 Comp'.hit_points[v] =
                     [max |-> Comp.hit_points[v].max,
                      current |-> SaturatingSub(Comp.hit_points[v].current,
                                                2 * Cardinality(HitsOn(v)))]
          /\ Len(message_log') = Cardinality(KilledNpcs)
          /\ \A v \in KilledNpcs :
                 \E k \in DOMAIN message_log' :
                     message_log'[k] = <<"NpcDies", Comp.npc_type[v]>>
          /\ \A k \in DOMAIN message_log' :
                 \E v \in KilledNpcs :
                     message_log'[k] = <<"NpcDies", Comp.npc_type[v]>>]_vars

\* A fireball has just killed an NPC: the projectile is gone and NpcDies is
\* the only log entry.
C16_Witness ==
    /\ result = [op |-> "move_projectiles", ret |-> "Unit"]
    /\ message_log = << <<"NpcDies", "Orc">> >>
    /\ \E v \in DOMAIN Comp.npc_type :
           /\ Comp.hit_points[v].current = 0
           /\ Comp.tile[v] = <<"NpcCorpse", "Orc">>

\* C17: a fireball launched at a character standing d >= 1 cells away along
\* one axis, with no wall and no character in between and no other
\* projectile in flight, while the target stays where it is: each of the
\* first d - 1 calls of move_projectiles after the launch leaves the target's
\* hit points alone and the projectile in flight, and the d-th call takes
\* exactly 2 hit points (floored at 0) from the target, destroys the
\* projectile and leaves has_projectiles false; no call ends in a fatal error.
C17_FireballOnSchedule ==
    [][(result'.op = "move_projectiles" /\ CallMoveProjectiles
        /\ flight.projectile # None)
       => LET e == flight.projectile
              v == flight.target
              hp == Comp.hit_points[v]
          IN  /\ fatal' = NoPanic
              /\ Len(Comp.trajectory[e]) = flight.distance - flight.calls
              /\ IF flight.calls + 1 = flight.distance
                 THEN /\ Comp'.hit_points[v] =
                             [hp EXCEPT !.current = SaturatingSub(hp.current, 2)]
                      /\ ~Exists(world'.entity_allocator, e)
                      /\ ~HasProjectiles(world')
                 ELSE /\ flight.calls + 1 < flight.distance
                      /\ Comp'.hit_points[v] = hp
                      /\ Has(Comp'.trajectory, e)
                      /\ HasProjectiles(world')]_vars

\* The troll 3 cells east of the launch has gone from 6 to 4 hit points with
\* the third move_projectiles call, and no projectile is left.
C17_Witness ==
    /\ result = [op |-> "move_projectiles", ret |-> "Unit"]
    /\ flight.projectile = None
    /\ flight.distance = 3
    /\ flight.calls = 3
    /\ flight.direction = "East"
    /\ Comp.npc_type[flight.target] = "Troll"
    /\ Comp.hit_points[flight.target] = [current |-> 4, max |-> 6]
    /\ ~HasProjectiles(world)

\* The longest flight still ahead: the number of move_projectiles calls after
\* which every projectile now in flight has used up its trajectory and been
\* removed (a projectile with n steps left is removed by call n + 1 at the
\* latest); 0 when no projectile is in flight.
CallsToFinish(w) ==
    LET t == w.components.trajectory
        ahead == {Len(t[e]) + 1 : e \in DOMAIN t}
    IN  IF ahead = {} THEN 0
        ELSE CHOOSE n \in ahead : \A m \in ahead : m <= n

\* C18: a move_projectiles call that runs to its end creates no projectile
\* and, for every projectile in flight, either destroys it or uses up one
\* step of its trajectory and moves it by at most that step, and it
\* destroys it when its next cell holds a Feature or a Character or no step
\* is left; so the number of calls still needed goes down with every call
\* and has_projectiles is false after that many calls.  No call but a launch
\* touches a trajectory, and a destroyed entity never exists again, so
\* has_projectiles never counts it again.
C18_ProjectilesFinish ==
    /\ [][(result'.op = "move_projectiles" /\ CallMoveProjectiles
           /\ fatal' = NoPanic)
          => /\ DOMAIN Comp'.trajectory \subseteq InFlight
             /\ \A e \in InFlight :
                    IF Has(Comp'.trajectory, e)
                    THEN /\ ~Exhausted(e) /\ ~HitsFeature(e) /\ ~HitsCharacter(e)
                         /\ Comp'.trajectory[e] = Tail(Comp.trajectory[e])
                         /\ world'.spatial_table.location_component[e].coord
                                \in {Loc[e].coord, NextCell(e)}
                    ELSE ~Exists(world'.entity_allocator, e)
             /\ HasProjectiles(world) => CallsToFinish(world') < CallsToFinish(world)
             /\ HasProjectiles(world') <=> CallsToFinish(world') > 0]_vars
    /\ [][result'.op \notin {"move_projectiles", "maybe_use_item_aim"}
          => Comp'.trajectory = Comp.trajectory]_vars
    /\ [][\A e \in Entities :
              ~Exists(world.entity_allocator, e)
              => /\ ~Exists(world'.entity_allocator, e)
                 /\ ~Has(Comp'.trajectory, e)]_vars

\* A projectile has ended its flight against a wall or at the end of its
\* trajectory: nobody was hurt and no projectile is left.
C18_Witness ==
    /\ result = [op |-> "move_projectiles", ret |-> "Unit"]
    /\ fatal = NoPanic
    /\ ~HasProjectiles(world)
    /\ Destroyed # {}
    /\ message_log = << >>
    /\ \A v \in DOMAIN Comp.hit_points :
           Comp.hit_points[v].current = Comp.hit_points[v].max

\* C19: an Inventory keeps the number of slots it was created with under
\* insert, remove and get.  insert succeeds iff some slot is empty and then
\* fills the lowest empty slot and no other; with no empty slot it fails
\* (InventoryIsFull) and changes nothing, so the insert after C successful
\* ones into an empty inventory of capacity C fails.  remove(i) on an
\* occupied slot hands out the entity stored there and leaves slot i empty
\* and the others alone; remove(i) and get(i) on an empty or out-of-range
\* slot fail (InventorySlotIsEmpty) and change nothing; get never changes
\* anything; none of them ends in a fatal error.
C19_InventoryContainer ==
    [][LET empty == {i \in DOMAIN inv : inv[i] = None}
           i == inv_result'.arg + 1
           occupied == i \in DOMAIN inv /\ inv[i] # None
       IN  /\ Len(inv') = Len(inv)
           /\ fatal' = NoPanic
           /\ inv_result'.op = "insert" =>
                  /\ inv_result'.ok <=> empty # {}
                  /\ empty = {} => inv' = inv
                  /\ empty # {} =>
                         \E k \in empty :
                             /\ \A j \in empty : k <= j
                             /\ inv' = [inv EXCEPT ![k] = inv_result'.arg]
           /\ inv_result'.op = "remove" =>
                  /\ inv_result'.ok <=> occupied
                  /\ occupied => /\ inv_result'.entity = inv[i]
                                 /\ inv' = [inv EXCEPT ![i] = None]
                  /\ ~occupied => inv' = inv
           /\ inv_result'.op = "get" =>
                  /\ inv_result'.ok <=> occupied
                  /\ occupied => inv_result'.entity = inv[i]
                  /\ inv' = inv]_<<inv, inv_result>>

\* An inventory of the largest capacity, filled by as many inserts, has just
\* refused one more.
C19_Witness ==
    /\ inv_result = [op |-> "insert", arg |-> 1, ok |-> FALSE, entity |-> None]
    /\ Len(inv) = MaxCapacity
    /\ \A i \in DOMAIN inv : inv[i] # None

\* Every order the projectiles of a set can be scanned in.
ScanOrders(projectiles) ==
    {order \in [1 .. Cardinality(projectiles) -> projectiles] :
         \A i, j \in DOMAIN order : order[i] = order[j] => i = j}

\* The entries of a log, whatever their order.
Entries(log) == {log[k] : k \in DOMAIN log}

\* C20: with two or more projectiles in flight, move_projectiles leaves the
\* same spatial table and component tables (every position and removal,
\* every hit point), the same log entries and the same fatal error or none,
\* whichever order the scan takes the projectiles in.
C20_NoOrderBias ==
    (Running /\ Cardinality(DOMAIN Comp.trajectory) >= 2)
    => \A order \in ScanOrders(DOMAIN Comp.trajectory) :
           LET in_order == MoveProjectilesIn(Here, order)
               in_index_order == MoveProjectiles(Here)
           IN  /\ in_order.panic = in_index_order.panic
               /\ in_order.panic = NoPanic =>
                      /\ in_order.world.spatial_table =
                             in_index_order.world.spatial_table
                      /\ in_order.world.components =
                             in_index_order.world.components
                      /\ Entries(in_order.log) = Entries(in_index_order.log)

\* The slots, of any inventory, that refer to entity e.
SlotsHolding(e) ==
    {<<owner, i>> \in (DOMAIN Comp.inventory) \X (1 .. PlayerInventoryCapacity) :
         i \in DOMAIN Comp.inventory[owner] /\ Comp.inventory[owner][i] = e}

OnGround(e) == Has(Loc, e) /\ Loc[e].layer = "object"

\* C21: every existing entity with an Item attribute is in exactly one
\* place: on the Object layer of some cell, or in exactly one slot of exactly
\* one inventory; never both, never in two slots, never in neither.
C21_ItemWhereabouts ==
    \A e \in DOMAIN Comp.item :
        Exists(world.entity_allocator, e)
        => /\ OnGround(e) => SlotsHolding(e) = {}
           /\ ~OnGround(e) => Cardinality(SlotsHolding(e)) = 1
           /\ Has(Loc, e) => Loc[e].layer = "object"

\* C22: a call of maybe_get_item, maybe_use_item, maybe_use_item_aim or
\* maybe_drop_item that answers failure leaves the entities, every component
\* table, every placement and every inventory slot as they were; only the
\* log may have grown.
C22_FailureLeavesWorldUntouched ==
    [][(/\ result'.op \in {"maybe_get_item", "maybe_use_item",
                            "maybe_use_item_aim", "maybe_drop_item"}
        /\ result'.ret = "Err")
       => /\ world' = world
          /\ deaths' = deaths
          /\ fatal' = NoPanic
          /\ Len(message_log') <= 1]_vars

\* The player, carrying an item, was refused a pickup for want of a slot.
C22_Witness ==
    /\ result = [op |-> "maybe_get_item", ret |-> "Err"]
    /\ message_log = << <<"PlayerInventoryIsFull">> >>
    /\ \A i \in DOMAIN Comp.inventory[player_entity] :
           /\ Comp.inventory[player_entity][i] # None
           /\ Has(Comp.item, Comp.inventory[player_entity][i])
    /\ OnGround(Grid[CoordOf(world.spatial_table, player_entity)].object)


====
